---- MODULE Spec2Model ----
(***************************************************************************)
(* Skip list engine sl_impl<T, Compare, Allocator> of                      *)
(* include/internal/sl_impl.hpp, with T a bounded integer type and         *)
(* Compare = std::less<T>.                                                 *)
(*                                                                         *)
(* The heap is a function from the addresses in use to node objects.       *)
(* `delete` takes an address out of the heap and leaves every pointer that *)
(* still holds it dangling; `new` may hand out any address not in use,     *)
(* a freed one included.  A read or write through a null or dangling       *)
(* pointer, or of m_next[i] with i > m_level, is undefined behaviour: the  *)
(* call ends with status "undefined".  A failed assert ends it with        *)
(* status "aborted", a loop that never ends with status "hang".            *)
(***************************************************************************)
EXTENDS Integers, Sequences, FiniteSets, TLC

\* ---------------------------------------------------------------- bounds
\* Number of addresses the allocator can hand out for real nodes.
MaxNodes == 3
\* numeric_limits<T>::max() of the modelled value type T.
TMax == 2
\* Number of mutating calls (insert, remove, remove_all) in one run.
MaxCalls == 5

\* ------------------------------------------------------ program constants
\* numeric_limits<T>::min() of the modelled value type T.
TMin == 0
max_levels == 5
m_levels == max_levels
NULL == 0
m_head == 1
m_tail == 2

Values == TMin..TMax
Addresses == 3..(2 + MaxNodes)

VARIABLES
    heap,     \* address -> sl_node object, for every address in use
    m_size,   \* sl_impl::m_size
    order,    \* history: the live handles, oldest insert first
    status,   \* how the last call ended: "ok", "undefined", "aborted", "hang"
    calls     \* number of mutating calls made so far

vars == <<heap, m_size, order, status, calls>>

\* ------------------------------------------------------------ comparator
m_less(lhs, rhs) == lhs < rhs
is_less_or_equal(lhs, rhs) == ~m_less(rhs, lhs)
is_equal(lhs, rhs) == ~(m_less(lhs, rhs) \/ m_less(rhs, lhs))

\* ------------------------------------------------------------------ node
sl_node(value, level) ==
    [m_value |-> value,
     m_level |-> level,
     m_prev  |-> NULL,
     m_next  |-> [i \in 0..level |-> NULL]]

\* p->m_next[level] can be read: p is an object in use and level <= p->m_level.
CanRead(h, p, level) == p \in DOMAIN h /\ level \in DOMAIN h[p].m_next

Outcome(st, h, curr) == [st |-> st, heap |-> h, curr |-> curr]

\* ---------------------------------------------------------- construction
sl_impl ==
    (m_head :> [sl_node(TMin, max_levels) EXCEPT
                   !.m_next = [i \in 0..max_levels |-> m_tail],
                   !.m_prev = NULL])
    @@
    (m_tail :> [sl_node(TMax, max_levels) EXCEPT
                   !.m_next = [i \in 0..max_levels |-> NULL],
                   !.m_prev = m_head])

size == m_size
front(h) == h[m_head].m_next[0]
back(h) == h[m_tail].m_prev

\* ---------------------------------------------------------- random_level
\* The i-th toss_a_coin() of a call of random_level(), when rand() yields an
\* even number `heads` times in a row and an odd number after that.
toss_a_coin(i, heads) == i <= heads

RECURSIVE random_level_loop(_, _)
random_level_loop(level, heads) ==
    IF level < max_levels /\ toss_a_coin(level, heads)
    THEN random_level_loop(level + 1, heads)
    ELSE level

random_level(heads) == random_level_loop(1, heads)

\* Leading even results of rand() that random_level() can consume.
CoinRuns == 0..(max_levels - 1)

\* ---------------------------------------------------------------- insert
\* The second conjunct of insert's while condition: the scan moves on past a
\* next node of value next_value.
insert_advances_past_equal(next_value, value) == ~m_less(value, next_value)
insert_advances(next_value, value) == m_less(next_value, value)

\* ++m_size
size_after_insert_skipped(n) == n
size_after_insert(n) == n + 1

\* The inner while loop of insert at one level, the assert included.
RECURSIVE insert_scan(_, _, _, _, _)
insert_scan(h, curr, level, value, fuel) ==
    IF ~CanRead(h, curr, level) THEN Outcome("undefined", h, curr)
    ELSE LET nxt == h[curr].m_next[level] IN
         IF nxt = m_tail THEN Outcome("ok", h, curr)
         ELSE IF nxt \notin DOMAIN h THEN Outcome("undefined", h, curr)
         ELSE IF ~insert_advances(h[nxt].m_value, value) THEN Outcome("ok", h, curr)
         ELSE IF ~(level <= h[nxt].m_level) THEN Outcome("aborted", h, nxt)
         ELSE IF fuel = 0 THEN Outcome("hang", h, nxt)
         ELSE insert_scan(h, nxt, level, value, fuel - 1)

\* The do-while loop of insert from `level` down to 0.
RECURSIVE insert_descend(_, _, _, _)
insert_descend(h, curr, level, new_node) ==
    LET s == insert_scan(h, curr, level, h[new_node].m_value, Cardinality(DOMAIN h))
    IN  IF s.st # "ok" THEN s
        ELSE LET c  == s.curr
                 h1 == [h  EXCEPT ![new_node].m_next[level] = h[c].m_next[level]]
                 h2 == [h1 EXCEPT ![c].m_next[level] = new_node]
             IN  IF level <= h[new_node].m_level
                 THEN IF h[c].m_next[level] = NULL THEN Outcome("aborted", h, c)
                      ELSE IF level = 0 THEN Outcome("ok", h2, c)
                      ELSE insert_descend(h2, c, level - 1, new_node)
                 ELSE IF level = 0 THEN Outcome("ok", h, c)
                      ELSE insert_descend(h, c, level - 1, new_node)

\* insert(value, hint) with node_level drawn by random_level() and the new
\* node placed at address addr by operator new.
insert(h, value, node_level, hint, addr) ==
    LET h0   == h @@ (addr :> sl_node(value, node_level))
        curr == IF hint # NULL THEN hint ELSE m_head
    IN  IF curr \notin DOMAIN h0 THEN Outcome("undefined", h0, curr)
        ELSE LET d == insert_descend(h0, curr, h0[curr].m_level, addr) IN
             IF d.st # "ok" THEN d
             ELSE LET nxt == d.heap[addr].m_next[0] IN
                  IF nxt = NULL THEN Outcome("aborted", d.heap, d.curr)
                  ELSE IF nxt \notin DOMAIN d.heap THEN Outcome("undefined", d.heap, d.curr)
                  ELSE LET h3 == [d.heap EXCEPT ![addr].m_prev = d.curr]
                           h4 == [h3 EXCEPT ![nxt].m_prev = addr]
                       IN  Outcome("ok", h4, addr)

\* ---------------------------------------------------------------- remove
\* --m_size
size_after_remove(n) == n - 1

\* The inner while loop of remove at one level.
RECURSIVE remove_scan(_, _, _, _, _)
remove_scan(h, curr, level, value, fuel) ==
    IF ~CanRead(h, curr, level) THEN Outcome("undefined", h, curr)
    ELSE LET nxt == h[curr].m_next[level] IN
         IF nxt = m_tail THEN Outcome("ok", h, curr)
         ELSE IF nxt \notin DOMAIN h THEN Outcome("undefined", h, curr)
         ELSE IF ~m_less(h[nxt].m_value, value) THEN Outcome("ok", h, curr)
         ELSE IF fuel = 0 THEN Outcome("hang", h, nxt)
         ELSE remove_scan(h, nxt, level, value, fuel - 1)

\* The unlink step of remove at one level, after the scan stopped at curr.
remove_unlink(h, curr, level, node) ==
    IF h[curr].m_next[level] = node
    THEN IF CanRead(h, node, level)
         THEN Outcome("ok", [h EXCEPT ![curr].m_next[level] = h[node].m_next[level]], curr)
         ELSE Outcome("undefined", h, curr)
    ELSE Outcome("ok", h, curr)

\* The for loop of remove from `level` down to 0.
RECURSIVE remove_descend(_, _, _, _)
remove_descend(h, curr, level, node) ==
    IF ~(level <= h[curr].m_level) THEN Outcome("aborted", h, curr)
    ELSE LET s == remove_scan(h, curr, level, h[node].m_value, Cardinality(DOMAIN h))
         IN  IF s.st # "ok" THEN s
             ELSE LET u == remove_unlink(h, s.curr, level, node) IN
                  IF u.st # "ok" \/ level = 0 THEN u
                  ELSE remove_descend(u.heap, u.curr, level - 1, node)

\* h without the object at address node (delete node).
delete(h, node) == [p \in DOMAIN h \ {node} |-> h[p]]

remove(h, node) ==
    IF node = NULL THEN Outcome("aborted", h, node)
    ELSE IF ~CanRead(h, node, 0) THEN Outcome("undefined", h, node)
    ELSE IF h[node].m_next[0] = NULL THEN Outcome("aborted", h, node)
    ELSE IF node = m_head \/ node = m_tail THEN Outcome("aborted", h, node)
    ELSE IF h[node].m_next[0] \notin DOMAIN h THEN Outcome("undefined", h, node)
    ELSE LET h1 == [h EXCEPT ![h[node].m_next[0]].m_prev = h[node].m_prev]
             d  == remove_descend(h1, m_head, m_levels, node)
         IN  IF d.st # "ok" THEN d
             ELSE Outcome("ok", delete(d.heap, node), d.curr)

\* ------------------------------------------------------------ remove_all
\* The while loop of remove_all, node being the next object to delete.
RECURSIVE remove_all_loop(_, _)
remove_all_loop(h, node) ==
    IF node = m_tail THEN Outcome("ok", h, node)
    ELSE IF ~CanRead(h, node, 0) THEN Outcome("undefined", h, node)
    ELSE remove_all_loop(delete(h, node), h[node].m_next[0])

remove_all(h) ==
    LET w == remove_all_loop(h, h[m_head].m_next[0]) IN
    IF w.st # "ok" THEN w
    ELSE LET h1 == [w.heap EXCEPT ![m_head].m_next = [i \in 0..m_levels |-> m_tail]]
             h2 == [h1 EXCEPT ![m_tail].m_prev = m_head]
         IN  Outcome("ok", h2, m_tail)

\* ------------------------------------------------------------------ find
\* The inner while loop of find at one level.
RECURSIVE find_scan(_, _, _, _, _)
find_scan(h, curr, level, value, fuel) ==
    IF ~CanRead(h, curr, level) THEN Outcome("undefined", h, curr)
    ELSE LET nxt == h[curr].m_next[level] IN
         IF nxt = m_tail THEN Outcome("ok", h, curr)
         ELSE IF is_equal(h[curr].m_value, value) THEN Outcome("ok", h, curr)
         ELSE IF nxt \notin DOMAIN h THEN Outcome("undefined", h, curr)
         ELSE IF ~is_less_or_equal(h[nxt].m_value, value) THEN Outcome("ok", h, curr)
         ELSE IF fuel = 0 THEN Outcome("hang", h, nxt)
         ELSE find_scan(h, nxt, level, value, fuel - 1)

\* The for loop of find from `level` down to 0.
RECURSIVE find_descend(_, _, _, _)
find_descend(h, curr, level, value) ==
    LET s == find_scan(h, curr, level, value, Cardinality(DOMAIN h)) IN
    IF s.st # "ok" \/ level = 0 THEN s
    ELSE find_descend(h, s.curr, level - 1, value)

find(h, value) == find_descend(h, m_head, m_levels, value)

find_first(h, value) ==
    LET f == find(h, value) IN
    IF f.st # "ok" THEN f
    ELSE IF ~is_equal(h[f.curr].m_value, value)
         THEN IF CanRead(h, f.curr, 0)
              THEN Outcome("ok", h, h[f.curr].m_next[0])
              ELSE Outcome("undefined", h, f.curr)
         ELSE f

\* ---------------------------------------------------------------- state
Init ==
    /\ heap = sl_impl
    /\ m_size = 0
    /\ order = <<>>
    /\ status = "ok"
    /\ calls = 0

Live == {order[i] : i \in 1..Len(order)}
Free == Addresses \ DOMAIN heap
\* Addresses some pointer of an object in use holds.
Referenced ==
    UNION {{heap[p].m_prev} \cup {heap[p].m_next[i] : i \in DOMAIN heap[p].m_next} :
           p \in DOMAIN heap}
\* Free addresses no pointer holds: they cannot be told apart.
Fresh == Free \ Referenced
\* The addresses operator new may return, one standing for all the fresh ones:
\* every free address a dangling pointer still holds, and the least fresh one.
NewAddresses ==
    (Free \cap Referenced) \cup {a \in Fresh : \A b \in Fresh : a <= b}

\* order without the handle node.
Forget(seq, node) == SelectSeq(seq, LAMBDA x : x # node)

\* h = insert(value): operator new returns addr, one of NewAddresses, and
\* random_level() sees `heads` even results of rand().
Insert(value, heads, addr) ==
    /\ status = "ok"
    /\ calls < MaxCalls
    /\ calls' = calls + 1
    /\ LET r == insert(heap, value, random_level(heads), NULL, addr) IN
       /\ status' = r.st
       /\ heap' = r.heap
       /\ m_size' = IF r.st = "ok" THEN size_after_insert(m_size) ELSE m_size
       /\ order' = IF r.st = "ok" THEN Append(order, addr) ELSE order

\* remove(node) of a live handle.
Remove(node) ==
    /\ status = "ok"
    /\ calls < MaxCalls
    /\ calls' = calls + 1
    /\ node \in Live
    /\ LET r == remove(heap, node) IN
       /\ status' = r.st
       /\ heap' = r.heap
       /\ m_size' = IF r.st = "ok" THEN size_after_remove(m_size) ELSE m_size
       /\ order' = IF r.st = "ok" THEN Forget(order, node) ELSE order

RemoveAll ==
    /\ status = "ok"
    /\ calls < MaxCalls
    /\ calls' = calls + 1
    /\ LET r == remove_all(heap) IN
       /\ status' = r.st
       /\ heap' = r.heap
       /\ m_size' = IF r.st = "ok" THEN 0 ELSE m_size
       /\ order' = IF r.st = "ok" THEN <<>> ELSE order

\* find(value): a const member, it returns a node and changes nothing.
Find(value) ==
    /\ status = "ok"
    /\ status' = find(heap, value).st
    /\ UNCHANGED <<heap, m_size, order, calls>>

\* find_first(value): a const member as well.
FindFirst(value) ==
    /\ status = "ok"
    /\ status' = find_first(heap, value).st
    /\ UNCHANGED <<heap, m_size, order, calls>>

Next ==
    \/ \E addr \in NewAddresses, value \in Values, heads \in CoinRuns :
           Insert(value, heads, addr)
    \/ \E node \in Live : Remove(node)
    \/ RemoveAll
    \/ \E value \in Values : Find(value)
    \/ \E value \in Values : FindFirst(value)

Spec == Init /\ [][Next]_vars

\* Inserts only, on a freshly constructed engine.
NextInsert ==
    \E addr \in NewAddresses, value \in Values, heads \in CoinRuns :
        Insert(value, heads, addr)

SpecInsert == Init /\ [][NextInsert]_vars

\* ------------------------------------------------------------ traversals
\* The addresses a traversal over level-`level` forward links arrives at, from
\* p on.  It ends at the tail sentinel, at `stop`, at an address it cannot read,
\* and after `fuel` steps (more steps than objects: the chain has a cycle).
RECURSIVE ForwardFrom(_, _, _, _, _)
ForwardFrom(h, p, level, stop, fuel) ==
    IF p = m_tail \/ p = stop \/ ~CanRead(h, p, level) \/ fuel = 0
    THEN <<p>>
    ELSE <<p>> \o ForwardFrom(h, h[p].m_next[level], level, stop, fuel - 1)

\* The same over m_prev links, ending at the head sentinel or at `stop`.
RECURSIVE BackwardFrom(_, _, _, _)
BackwardFrom(h, p, stop, fuel) ==
    IF p = m_head \/ p = stop \/ p \notin DOMAIN h \/ fuel = 0
    THEN <<p>>
    ELSE <<p>> \o BackwardFrom(h, h[p].m_prev, stop, fuel - 1)

Steps(h) == Cardinality(DOMAIN h) + 1
Range(seq) == {seq[i] : i \in 1..Len(seq)}

\* The level-`level` chain as a traversal from head sees it.
Chain(h, level) == ForwardFrom(h, m_head, level, m_tail, Steps(h))
\* Forward traversal from front() to back().
FrontToBack(h) == ForwardFrom(h, front(h), 0, back(h), Steps(h))
\* Backward traversal from back() to front().
BackToFront(h) == BackwardFrom(h, back(h), front(h), Steps(h))

\* A real node: an object in use that is not a sentinel.
Real(h, p) == p \in DOMAIN h /\ p # m_head /\ p # m_tail

\* ------------------------------------------------------------------ C1
\* C1: in every state reachable by insert, remove of a live handle and
\* remove_all, every two adjacent real nodes x, y met by the bottom-level forward
\* traversal from front() to back() satisfy x.value <= y.value.
C1_Sorted ==
    status = "ok" =>
        LET seq == FrontToBack(heap) IN
        \A i \in 1..(Len(seq) - 1) :
            (Real(heap, seq[i]) /\ Real(heap, seq[i + 1])) =>
                is_less_or_equal(heap[seq[i]].m_value, heap[seq[i + 1]].m_value)

\* ------------------------------------------------------------------ C2
\* Every address some traversal from head (any level) or from tail (backward)
\* arrives at.
Reachable(h) ==
    UNION {Range(Chain(h, level)) : level \in 0..m_levels}
    \cup Range(BackwardFrom(h, m_tail, m_head, Steps(h)))

\* C2: remove(n) of a live handle n ends normally, decreases size() by exactly
\* one and leaves n on no forward chain from head and not on the backward chain
\* from tail.
C2_RemoveUnlinks ==
    [][\A n \in Addresses :
          Remove(n) => /\ status' = "ok"
                       /\ m_size' = m_size - 1
                       /\ n \notin Reachable(heap')]_vars

\* ------------------------------------------------------------------ C3
\* The values stored in the live nodes.
Stored == {heap[p].m_value : p \in Live \cap DOMAIN heap}

\* C3: from any reachable state, h = insert(v) followed at once by remove(h)
\* ends normally and restores size(), the bottom-level forward chain and the
\* backward chain, for every value v, drawn level and address of the new node.
C3_InsertRemoveInverse ==
    status = "ok" =>
        \A v \in Values, heads \in CoinRuns, addr \in NewAddresses :
            LET i == insert(heap, v, random_level(heads), NULL, addr)
                r == remove(i.heap, addr)
            IN  /\ i.st = "ok"
                /\ r.st = "ok"
                /\ size_after_remove(size_after_insert(m_size)) = m_size
                /\ Chain(r.heap, 0) = Chain(heap, 0)
                /\ BackwardFrom(r.heap, m_tail, m_head, Steps(r.heap))
                       = BackwardFrom(heap, m_tail, m_head, Steps(heap))

\* ------------------------------------------------------------------ C4
\* C4: find(target) ends normally with a node of the bottom-level chain that is
\* neither null nor the tail sentinel; it is the head sentinel exactly when no
\* stored value is <= target, and otherwise a real node holding the greatest
\* stored value <= target.
C4_FindFloor ==
    status = "ok" =>
        \A target \in Values :
            LET f == find(heap, target)
                n == f.curr
            IN  /\ f.st = "ok"
                /\ n # NULL /\ n # m_tail
                /\ n \in Range(Chain(heap, 0))
                /\ (n = m_head) <=> (\A v \in Stored : ~is_less_or_equal(v, target))
                /\ n # m_head =>
                       /\ Real(heap, n)
                       /\ is_less_or_equal(heap[n].m_value, target)
                       /\ \A v \in Stored :
                              is_less_or_equal(v, target) =>
                                  is_less_or_equal(v, heap[n].m_value)

\* ------------------------------------------------------------------ C5
\* The first node after head on the bottom-level chain whose value is not less
\* than target, the tail sentinel if there is none.
LowerBound(h, target) ==
    LET c  == Chain(h, 0)
        ge == {i \in 2..Len(c) :
                  Real(h, c[i]) /\ ~m_less(h[c[i]].m_value, target)}
    IN  IF ge = {} THEN m_tail
        ELSE c[CHOOSE i \in ge : \A j \in ge : i <= j]

\* C5: find_first(target) returns the first node in bottom-level forward order
\* whose value is >= target, or the tail sentinel.  Stated for the targets
\* above numeric_limits<T>::min(), the value the head sentinel holds.
C5_FindFirstLowerBound ==
    status = "ok" =>
        \A target \in Values \ {TMin} :
            LET f == find_first(heap, target)
            IN  f.st = "ok" /\ f.curr = LowerBound(heap, target)

\* ------------------------------------------------------------------ C6
\* C6: find_first(v) returns a node of value v if some stored node has value v;
\* otherwise the first node of the bottom-level chain with a value greater than
\* v, or the tail sentinel if there is none.
C6_LowerBoundLaw ==
    status = "ok" =>
        \A v \in Values :
            LET f == find_first(heap, v)
                n == f.curr
            IN  /\ f.st = "ok"
                /\ IF v \in Stored
                   THEN Real(heap, n) /\ is_equal(heap[n].m_value, v)
                   ELSE n = LowerBound(heap, v)

\* ------------------------------------------------------------------ C7
\* C7: in every state in which some live node has value v, find(v) ends
\* normally with a node whose value is equal to v.
C7_FindExistence ==
    status = "ok" =>
        \A v \in Stored :
            LET f == find(heap, v)
            IN  /\ f.st = "ok"
                /\ f.curr \in DOMAIN heap
                /\ is_equal(heap[f.curr].m_value, v)

\* ------------------------------------------------------------------ C8
Reverse(seq) == [i \in 1..Len(seq) |-> seq[Len(seq) + 1 - i]]

\* C8: for every node x met on the bottom-level chain from head, the tail
\* excluded, whose successor is an object in use, x.m_next[0]->m_prev is x; and
\* on a list that is not empty the backward traversal from back() to front()
\* is the reverse of the forward traversal from front() to back().
C8_Bidirectional ==
    status = "ok" =>
        /\ \A x \in Range(Chain(heap, 0)) :
               (x # m_tail /\ CanRead(heap, x, 0)
                           /\ heap[x].m_next[0] \in DOMAIN heap) =>
                   heap[heap[x].m_next[0]].m_prev = x
        /\ front(heap) # m_tail =>
               BackToFront(heap) = Reverse(FrontToBack(heap))

\* ------------------------------------------------------------------ C9
\* The place of handle x in the insertion history.
Idx(seq, x) == CHOOSE i \in 1..Len(seq) : seq[i] = x

\* C9: on an engine that has only seen inserts without hint, no insert was
\* rejected, each made a node of its own, and on every level the nodes that
\* take part in it are all on its chain, those of equal value in the reverse of
\* their insertion order.
C9_DuplicateOrder ==
    /\ status = "ok"
    /\ Len(order) = calls
    /\ Cardinality(Live) = Len(order)
    /\ Live = DOMAIN heap \ {m_head, m_tail}
    /\ \A level \in 0..m_levels :
           LET c == Chain(heap, level) IN
           /\ \A n \in Live : level <= heap[n].m_level => n \in Range(c)
           /\ \A i \in 1..Len(c) : \A j \in (i + 1)..Len(c) :
                  (/\ c[i] \in Live /\ c[j] \in Live
                   /\ is_equal(heap[c[i]].m_value, heap[c[j]].m_value))
                  => Idx(order, c[i]) > Idx(order, c[j])

\* Three inserts of one value with three different levels.
C9_Witness ==
    /\ status = "ok"
    /\ \E a, b, c \in Live :
           /\ Idx(order, a) < Idx(order, b) /\ Idx(order, b) < Idx(order, c)
           /\ is_equal(heap[a].m_value, heap[b].m_value)
           /\ is_equal(heap[b].m_value, heap[c].m_value)
           /\ heap[a].m_level < heap[c].m_level
           /\ heap[c].m_level < heap[b].m_level
           /\ Chain(heap, 0) = <<m_head, c, b, a, m_tail>>

\* ----------------------------------------------------------------- C10
\* C10: after N inserts, all successful, and no removal on a freshly
\* constructed engine, size() is N.
C10_SizeCountsInserts == status = "ok" => size = calls

\* Three inserts, two of them of one value, with different levels.
C10_Witness ==
    /\ status = "ok"
    /\ calls = 3
    /\ \E a, b \in Live :
           /\ a # b
           /\ is_equal(heap[a].m_value, heap[b].m_value)
           /\ heap[a].m_level # heap[b].m_level

\* ----------------------------------------------------------------- C11
\* The real nodes a traversal of the bottom-level chain from head meets.
OnBottomChain(h) == {p \in Range(Chain(h, 0)) : Real(h, p)}

\* C11: in every state reached by insert, remove of a live handle and
\* remove_all, size() is the number of real nodes on the bottom-level chain
\* from head, and that is the number of live nodes.
C11_SizeCountsChain ==
    status = "ok" =>
        /\ size = Cardinality(OnBottomChain(heap))
        /\ Cardinality(OnBottomChain(heap)) = Cardinality(Live)

\* ----------------------------------------------------------------- C12
\* C12: remove_all() ends normally, frees every real node and leaves the
\* engine as the constructor makes it: every head link at tail, tail's back
\* link at head, size() 0, front() the tail and back() the head.
C12_RemoveAllResets ==
    [][RemoveAll => /\ status' = "ok"
                    /\ heap' = sl_impl
                    /\ m_size' = 0
                    /\ front(heap') = m_tail
                    /\ back(heap') = m_head]_vars

\* ----------------------------------------------------------------- C13
\* What a caller can pass to remove that is no live node of this engine: the
\* null pointer, the two sentinels, and a pointer to no object of the engine
\* (a node removed earlier, or a node the engine never made).
NotLive == {NULL, m_head, m_tail} \cup (Addresses \ DOMAIN heap)

\* remove(node) of a handle that is not a live node.
RemoveNotLive(node) ==
    /\ status = "ok"
    /\ calls < MaxCalls
    /\ calls' = calls + 1
    /\ node \in NotLive
    /\ LET r == remove(heap, node) IN
       /\ status' = r.st
       /\ heap' = r.heap
       /\ m_size' = IF r.st = "ok" THEN size_after_remove(m_size) ELSE m_size
       /\ order' = IF r.st = "ok" THEN Forget(order, node) ELSE order

NextContract ==
    \/ Next
    \/ \E node \in {NULL, m_head, m_tail} \cup Addresses : RemoveNotLive(node)

\* Every call of Spec, and remove of handles that are not live.
SpecContract == Init /\ [][NextContract]_vars

\* C13: remove(h) with h null, a sentinel or no live node of the engine ends
\* in a failed assertion (the reported contract violation) and changes no
\* link and not size().
C13_RemoveRejects ==
    [][\A node \in {NULL, m_head, m_tail} \cup Addresses :
           RemoveNotLive(node) => /\ status' = "aborted"
                                  /\ heap' = heap
                                  /\ m_size' = m_size]_vars

\* ------------------------------------------------------------ hints
\* h = insert(value, hint) with hint a live handle.
InsertHint(value, heads, addr, hint) ==
    /\ status = "ok"
    /\ calls < MaxCalls
    /\ calls' = calls + 1
    /\ hint \in Live
    /\ LET r == insert(heap, value, random_level(heads), hint, addr) IN
       /\ status' = r.st
       /\ heap' = r.heap
       /\ m_size' = IF r.st = "ok" THEN size_after_insert(m_size) ELSE m_size
       /\ order' = IF r.st = "ok" THEN Append(order, addr) ELSE order

NextHint ==
    \/ \E addr \in NewAddresses, value \in Values, heads \in CoinRuns :
           Insert(value, heads, addr)
    \/ \E addr \in NewAddresses, hint \in Live, value \in Values, heads \in CoinRuns :
           InsertHint(value, heads, addr, hint)
    \/ \E node \in Live : Remove(node)

\* Inserts without a hint and with any live handle as the hint, and removes of
\* live handles.
SpecHint == Init /\ [][NextHint]_vars

\* The hints whose node holds a value strictly less than value.
HintsBelow(value) ==
    {hint \in Live \cap DOMAIN heap : m_less(heap[hint].m_value, value)}

NextHintBelow ==
    \/ Next
    \/ \E addr \in NewAddresses, value \in Values, heads \in CoinRuns :
           \E hint \in HintsBelow(value) : InsertHint(value, heads, addr, hint)

\* Every call of Spec, and insert with a hint of strictly smaller value.
SpecHintBelow == Init /\ [][NextHintBelow]_vars

\* ----------------------------------------------------------------- C14
\* The values a traversal of the bottom-level chain of h meets, in order.
BottomValues(h) ==
    LET c    == Chain(h, 0)
        real == SelectSeq(c, LAMBDA p : Real(h, p))
    IN  [i \in 1..Len(real) |-> h[real[i]].m_value]

IsSorted(seq) ==
    \A i \in 1..(Len(seq) - 1) : is_less_or_equal(seq[i], seq[i + 1])

\* C14: in every reachable state, for every value and every live handle as
\* the hint, insert(value, hint) ends normally and leaves the size() and the
\* bottom-level sequence of values that insert(value) without a hint leaves,
\* and that sequence is sorted.
C14_HintOnlyOptimizes ==
    status = "ok" =>
        \A value \in Values, heads \in CoinRuns, addr \in NewAddresses, hint \in Live :
            LET plain  == insert(heap, value, random_level(heads), NULL, addr)
                hinted == insert(heap, value, random_level(heads), hint, addr)
            IN  plain.st = "ok" =>
                    /\ hinted.st = "ok"
                    /\ BottomValues(hinted.heap) = BottomValues(plain.heap)
                    /\ IsSorted(BottomValues(hinted.heap))

\* ----------------------------------------------------------------- C15
\* m_size when the new-expression of insert throws: ++m_size is not reached.
size_after_bad_alloc_counted(n) == n + 1
size_after_bad_alloc(n) == n

\* insert(value, hint) when the new-expression throws std::bad_alloc (for the
\* node or for its array of links): the exception leaves insert before any
\* statement that reads or writes a link.
insert_bad_alloc(h, value, node_level, hint) == Outcome("bad_alloc", h, NULL)

\* insert(value) with no memory left for the node.
InsertNoMemory(value, heads) ==
    /\ status = "ok"
    /\ calls < MaxCalls
    /\ calls' = calls + 1
    /\ LET r == insert_bad_alloc(heap, value, random_level(heads), NULL) IN
       /\ status' = r.st
       /\ heap' = r.heap
       /\ m_size' = size_after_bad_alloc(m_size)
       /\ order' = order

NextNoMemory ==
    \/ \E addr \in NewAddresses, value \in Values, heads \in CoinRuns :
           Insert(value, heads, addr)
    \/ \E value \in Values, heads \in CoinRuns : InsertNoMemory(value, heads)

\* Inserts on a freshly constructed engine, any of which may run out of memory.
SpecNoMemory == Init /\ [][NextNoMemory]_vars

Revisits(seq) == \E i \in 1..Len(seq) : \E j \in (i + 1)..Len(seq) : seq[i] = seq[j]

\* C16: every call of find, find_first, insert, remove of a live handle and
\* remove_all comes to an end, and no forward chain from head, on any level,
\* comes back to a node it has left.
C16_Terminates ==
    /\ status # "hang"
    /\ status = "ok" => \A level \in 0..m_levels : ~Revisits(Chain(heap, level))

\* ----------------------------------------------------------------- C18
\* C18: the sentinels are never matched as data: find_first never returns
\* the head, find returns the head only when no stored value is less than or
\* equal to the target, and a stored node holding the least value of the value
\* type is what find and find_first return for that value.
C18_SentinelsNotData ==
    status = "ok" =>
        \A target \in Values :
            LET f  == find(heap, target)
                ff == find_first(heap, target)
            IN  /\ f.st = "ok" /\ ff.st = "ok"
                /\ ff.curr # m_head
                /\ f.curr = m_head => \A v \in Stored : ~is_less_or_equal(v, target)
                /\ (target = TMin /\ TMin \in Stored) =>
                       /\ Real(heap, f.curr) /\ is_equal(heap[f.curr].m_value, TMin)
                       /\ Real(heap, ff.curr) /\ is_equal(heap[ff.curr].m_value, TMin)

\* ----------------------------------------------------------------- C17
\* C17: in every state reached by insert without a hint, insert with a live
\* hint of strictly smaller value, remove of a live handle and remove_all, on
\* every level the forward chain from head ends at tail, is sorted, and holds
\* every live node whose level is at least that level.
C17_LevelChains ==
    status = "ok" =>
        \A level \in 0..m_levels :
            LET c == Chain(heap, level) IN
            /\ c[Len(c)] = m_tail
            /\ \A n \in Live : (n \in DOMAIN heap /\ level <= heap[n].m_level) => n \in Range(c)
            /\ \A i \in 2..(Len(c) - 2) :
                   (Real(heap, c[i]) /\ Real(heap, c[i + 1])) =>
                       is_less_or_equal(heap[c[i]].m_value, heap[c[i + 1]].m_value)

\* ----------------------------------------------------------------- C19
\* C19: over inserts with any live handle as the hint (or none) and removes
\* of live handles, no call fails an assertion or reads a link that is null or
\* outside an object, and every live node's forward links 0..m_level are all
\* non-null.
C19_LinksValid ==
    /\ status \notin {"aborted", "undefined"}
    /\ status = "ok" =>
           \A n \in Live : n \in DOMAIN heap /\
               \A level \in 0..heap[n].m_level : heap[n].m_next[level] # NULL

\* ----------------------------------------------------------------- C20
\* The live nodes other than n that a traversal of the level meets, in order.
OthersOnChain(h, level, n) ==
    SelectSeq(Chain(h, level), LAMBDA p : p \in Live /\ p # n /\ p \in DOMAIN h)

\* C20: remove(n) of a live handle changes no node other than n: every other
\* live node keeps its value and level and stays on every level chain it was
\* on, in the same order; the only forward links changed are links that
\* pointed to n, and the only back link changed is that of n's successor.
C20_RemoveFrame ==
    [][\A n \in Addresses : Remove(n) =>
           /\ status' = "ok"
           /\ \A p \in (Live \cap DOMAIN heap) \ {n} :
                  /\ p \in DOMAIN heap'
                  /\ heap'[p].m_value = heap[p].m_value
                  /\ heap'[p].m_level = heap[p].m_level
                  /\ \A level \in 0..heap[p].m_level :
                         heap'[p].m_next[level] # heap[p].m_next[level] =>
                             heap[p].m_next[level] = n
                  /\ heap'[p].m_prev # heap[p].m_prev => p = heap[n].m_next[0]
           /\ \A level \in 0..m_levels :
                  OthersOnChain(heap, level, n) = OthersOnChain(heap', level, n)]_vars
====
